---------------------------- MODULE Spec2Model ----------------------------
(***************************************************************************)
(* Planar area of a polygon (src/algorithm/area.rs).                       *)
(*                                                                         *)
(* Area::area is modelled as a state machine: one action per statement of  *)
(* the method (taking the ring iterator and its first ring, measuring the  *)
(* outer ring, seeding the fold, one fold step per hole, the return).      *)
(* get_linestring_area is a pure function and is modelled as an operator   *)
(* that folds over the points exactly as the loop does.                    *)
(*                                                                         *)
(* Scalars.  T: Float is modelled in binary fixed point with one           *)
(* fractional bit: the scalar v is held as the integer v * One.  Every     *)
(* value the algorithm produces from integer coordinates is a multiple of  *)
(* 1/2, so sums, products and the final division by two are exact here, as *)
(* they are in f64 for coordinates of this magnitude.                      *)
(*                                                                         *)
(* haversine_destination.rs is outside the model: its arithmetic is        *)
(* transcendental (sin, cos, asin, atan2), which integers cannot hold.     *)
(***************************************************************************)
EXTENDS Integers, Sequences, FiniteSets

VARIABLES
    poly,       \* self: the sequence of rings that self.rings() yields
    pc,         \* position inside Area::area
    rings,      \* the iterator `rings`: the rings not yet taken
    ring,       \* outer_ring, then the closure's `ring`
    ring_area,  \* value of the latest get_linestring_area call
    acc,        \* the fold's accumulator
    result      \* what the caller of area observes

vars == <<poly, pc, rings, ring, ring_area, acc, result>>

---------------------------------------------------------------------------
(* Scalars: T::zero(), T::one() and the arithmetic of T.                   *)

Zero == 0

One == 2

FAdd(a, b) == a + b

FSub(a, b) == a - b

FMul(a, b) == (a * b) \div One

FDiv(a, b) == (a * One) \div b

\* The scalar of the integer n, and a point with integer coordinates.
Fx(n) == n * One

Pt(x, y) == [x |-> Fx(x), y |-> Fx(y)]

---------------------------------------------------------------------------
(* get_linestring_area                                                     *)

\* The pair's contribution with its two products exchanged.
ShoelaceTermSwapped(p1, p2) == FSub(FMul(p2.x, p1.y), FMul(p1.x, p2.y))

\* The pair's contribution without its second product.
ShoelaceTermHalf(p1, p2) == FMul(p1.x, p2.y)

\* area.rs:33, the contribution of one consecutive pair.
ShoelaceTerm(p1, p2) == FSub(FMul(p1.x, p2.y), FMul(p2.x, p1.y))

\* area.rs:32-35, the loop over the remaining points.
RECURSIVE ShoelaceLoop(_, _, _)
ShoelaceLoop(points, p1, tmp) ==
    IF points = <<>> THEN tmp
    ELSE LET p2 == Head(points)
         IN  ShoelaceLoop(Tail(points), p2, FAdd(tmp, ShoelaceTerm(p1, p2)))

\* The division by two left out.
HalveKeep(tmp) == tmp

\* The sign dropped from the result.
HalveAbs(tmp) ==
    LET a == FDiv(tmp, FAdd(One, One))
    IN  IF a < Zero THEN FSub(Zero, a) ELSE a

\* area.rs:36, the final division by T::one() + T::one().
Halve(tmp) == FDiv(tmp, FAdd(One, One))

\* The early return yielding T::one().
EmptyAreaOne == One

\* area.rs:29, the early return of a ring without points.
EmptyArea == Zero

\* The iteration closed by a last pair back to the first point.
RestPointsWrapping(linestring) == Tail(linestring) \o <<Head(linestring)>>

\* area.rs:26-28, what `points` still holds once points.next() gave p1.
RestPoints(linestring) == Tail(linestring)

\* area.rs:23-37
get_linestring_area(linestring) ==
    IF linestring = <<>> THEN EmptyArea
    ELSE Halve(ShoelaceLoop(RestPoints(linestring), Head(linestring), Zero))

---------------------------------------------------------------------------
(* Inputs                                                                  *)

\* All sequences over S of length 0..n.
SeqUpTo(S, n) == UNION {[1..k -> S] : k \in 0..n}

Reverse(s) == [i \in 1..Len(s) |-> s[Len(s) + 1 - i]]

Translate(s, dx, dy) ==
    [i \in 1..Len(s) |-> [x |-> FAdd(s[i].x, Fx(dx)), y |-> FAdd(s[i].y, Fx(dy))]]

\* A polygon whose rings() yields nothing.
NoRings == <<>>

---------------------------------------------------------------------------
(* Area::area                                                              *)

NoResult == [kind |-> "none", val |-> <<>>, msg |-> ""]

Returned(v) == [kind |-> "value", val |-> <<v>>, msg |-> ""]

\* area.rs:45, the panic of Option::expect on None.
Panicked == [kind |-> "panic", val |-> <<>>, msg |-> "no outer ring in polygon"]

\* A missing first ring taken for a ring without points.
AreaBeginDefault ==
    /\ pc = "start"
    /\ pc' = "outer"
    /\ rings' = IF poly = <<>> THEN <<>> ELSE Tail(poly)
    /\ ring' = IF poly = <<>> THEN <<>> ELSE Head(poly)
    /\ UNCHANGED <<poly, ring_area, acc, result>>

\* A missing first ring answered with T::zero().
AreaBeginZero ==
    /\ pc = "start"
    /\ IF poly = <<>>
       THEN /\ pc' = "returned"
            /\ result' = Returned(Zero)
            /\ UNCHANGED <<rings, ring>>
       ELSE /\ pc' = "outer"
            /\ rings' = Tail(poly)
            /\ ring' = Head(poly)
            /\ UNCHANGED result
    /\ UNCHANGED <<poly, ring_area, acc>>

\* area.rs:44-45: let mut rings = self.rings();
\*                let outer_ring = rings.next().expect("no outer ring in polygon");
AreaBegin ==
    /\ pc = "start"
    /\ IF poly = <<>>
       THEN /\ pc' = "panicked"
            /\ result' = Panicked
            /\ UNCHANGED <<rings, ring>>
       ELSE /\ pc' = "outer"
            /\ rings' = Tail(poly)
            /\ ring' = Head(poly)
            /\ UNCHANGED result
    /\ UNCHANGED <<poly, ring_area, acc>>

\* area.rs:46: let outer_ring_area = get_linestring_area(&outer_ring);
AreaOuterRing ==
    /\ pc = "outer"
    /\ ring_area' = get_linestring_area(ring)
    /\ pc' = "init"
    /\ UNCHANGED <<poly, rings, ring, acc, result>>

\* area.rs:47: rings.fold(outer_ring_area, ...), the accumulator's first value.
AreaFoldInit ==
    /\ pc = "init"
    /\ acc' = ring_area
    /\ pc' = "fold"
    /\ UNCHANGED <<poly, rings, ring, ring_area, result>>

\* area.rs:47-48: the fold takes the next ring, the closure measures it.
AreaFoldNext ==
    /\ pc = "fold"
    /\ rings # <<>>
    /\ ring' = Head(rings)
    /\ rings' = Tail(rings)
    /\ ring_area' = get_linestring_area(Head(rings))
    /\ pc' = "sub"
    /\ UNCHANGED <<poly, acc, result>>

\* The hole's area taken by magnitude (winding normalised).
FoldStepAbs(a, hole) == FSub(a, IF hole < Zero THEN FSub(Zero, hole) ELSE hole)

\* area.rs:48: acc - get_linestring_area(&ring)
FoldStep(a, hole) == FSub(a, hole)

AreaFoldSub ==
    /\ pc = "sub"
    /\ acc' = FoldStep(acc, ring_area)
    /\ pc' = "fold"
    /\ UNCHANGED <<poly, rings, ring, ring_area, result>>

\* area.rs:47-50: the iterator is exhausted, the fold's value is returned.
AreaReturn ==
    /\ pc = "fold"
    /\ rings = <<>>
    /\ result' = Returned(acc)
    /\ pc' = "returned"
    /\ UNCHANGED <<poly, rings, ring, ring_area, acc>>

Next ==
    \/ AreaBegin
    \/ AreaOuterRing
    \/ AreaFoldInit
    \/ AreaFoldNext
    \/ AreaFoldSub
    \/ AreaReturn

---------------------------------------------------------------------------
(* The polygons of each specification.  Every family holds the polygon     *)
(* without rings and polygons with holes.                                  *)

MaxRings == 3

MaxCoord == 1

MaxPts == 3

MaxRingCoord == 2

MaxVertices == 4

MaxClosedCoord == 2

MaxOff == 1

MaxOrigin == 1

MaxSide == 2

MaxHoles == 2

MaxHoleSide == 2

GridPoints == {Pt(x, y) : x \in 0..MaxCoord, y \in 0..MaxCoord}

\* The rings of the tests of area.rs.
EmptyRing == <<>>

OnePointRing == <<Pt(1, 0)>>

Rect5x6 == <<Pt(0, 0), Pt(5, 0), Pt(5, 6), Pt(0, 6), Pt(0, 0)>>

Square10 == <<Pt(0, 0), Pt(10, 0), Pt(10, 10), Pt(0, 10), Pt(0, 0)>>

Inner0 == <<Pt(1, 1), Pt(2, 1), Pt(2, 2), Pt(1, 2), Pt(1, 1)>>

Inner1 == <<Pt(5, 5), Pt(6, 5), Pt(6, 6), Pt(5, 6), Pt(5, 5)>>

\* The test rings, two of them also clockwise and one left open.
RingPool ==
    {EmptyRing, OnePointRing, Rect5x6, Reverse(Rect5x6), SubSeq(Rect5x6, 1, 4),
     Inner0, Reverse(Inner0)}

\* The state in which area is entered on the polygon p.
Entered(p) ==
    /\ poly = p
    /\ pc = "start"
    /\ rings = <<>>
    /\ ring = <<>>
    /\ ring_area = Zero
    /\ acc = Zero
    /\ result = NoResult

\* Polygons of up to MaxRings rings of the pool.
InitPool == \E n \in 0..MaxRings : \E p \in [1..n -> RingPool] : Entered(p)

RingGridPoints == {Pt(x, y) : x \in 0..MaxRingCoord, y \in 0..MaxRingCoord}

\* One ring of up to MaxPts grid points alone, or the ring with its reversal
\* as a second ring.
InitRing ==
    \/ Entered(NoRings)
    \/ \E n \in 0..MaxPts : \E r \in [1..n -> RingGridPoints] :
          Entered(<<r>>) \/ Entered(<<r, Reverse(r)>>)

\* Explicitly closed rings of 1..MaxVertices vertices, each with its reversal.
Close(s) == s \o <<s[1]>>

ClosedGridPoints == {Pt(x, y) : x \in 0..MaxClosedCoord, y \in 0..MaxClosedCoord}

InitClosed ==
    \/ Entered(NoRings)
    \/ \E n \in 1..MaxVertices : \E s \in [1..n -> ClosedGridPoints] :
          Entered(<<Close(s), Reverse(Close(s))>>)

\* A ring of up to MaxVertices - 1 grid points, left open or explicitly closed
\* by repeating its first point, with its translate as a second ring.
Offsets == (0 - MaxOff)..MaxOff

InitTranslate ==
    \/ Entered(NoRings)
    \/ \E n \in 0..(MaxVertices - 1) : \E s \in [1..n -> GridPoints] :
          \E dx \in Offsets, dy \in Offsets :
              \/ Entered(<<s, Translate(s, dx, dy)>>)
              \/ n > 0 /\ Entered(<<Close(s), Translate(Close(s), dx, dy)>>)

\* The explicitly closed counter-clockwise axis-aligned rectangle of size
\* w x h at (x0, y0), starting from its corner number k.
Rect(x0, y0, w, h, k) ==
    LET c == <<Pt(x0, y0), Pt(x0 + w, y0), Pt(x0 + w, y0 + h), Pt(x0, y0 + h)>>
    IN  [i \in 1..5 |-> c[((i - 1 + k) % 4) + 1]]

HoleSizes == SeqUpTo((1..MaxHoleSide) \X (1..MaxHoleSide), MaxHoles)

\* The polygons of the tests, and a rectangle at (x0, y0) whose hole i has the
\* size hs[i] and lies at (x0 + i, y0 + i).
InitRect ==
    \/ Entered(NoRings)
    \/ Entered(<<Rect5x6>>)
    \/ Entered(<<Square10, Inner0, Inner1>>)
    \/ \E x0 \in 0..MaxOrigin, y0 \in 0..MaxOrigin, w \in 1..MaxSide,
          h \in 1..MaxSide, k \in 0..3, hs \in HoleSizes :
          Entered(<<Rect(x0, y0, w, h, k)>> \o
                  [i \in 1..Len(hs) |->
                      Rect(x0 + i, y0 + i, hs[i][1], hs[i][2], k)])

Spec == InitPool /\ [][Next]_vars

SpecRing == InitRing /\ [][Next]_vars

SpecClosed == InitClosed /\ [][Next]_vars

SpecTranslate == InitTranslate /\ [][Next]_vars

SpecRect == InitRect /\ [][Next]_vars

---------------------------------------------------------------------------
(* Properties                                                              *)

\* The number of rings taken from the iterator so far.
RingsTaken == Len(poly) - Len(rings)

\* The sum of the signed areas of the rings i.. of the polygon p.
RECURSIVE SumRingAreas(_, _)
SumRingAreas(p, i) ==
    IF i > Len(p) THEN Zero
    ELSE FAdd(get_linestring_area(p[i]), SumRingAreas(p, i + 1))

\* C1: whenever area returns, its value is the signed area of the first ring
\* minus the sum of the signed areas of all later rings, each taken with the
\* sign it has (no absolute value, no winding normalisation).
C1_OuterMinusHoles ==
    pc = "returned" =>
        result = Returned(FSub(get_linestring_area(poly[1]), SumRingAreas(poly, 2)))

\* A clockwise hole (negative signed area) adds to the result: 30 - (-1) - (-1).
C1_Witness ==
    /\ pc = "returned"
    /\ poly = <<Rect5x6, Reverse(Inner0), Reverse(Inner0)>>
    /\ result = Returned(Fx(32))

\* C2: on a polygon without rings, area fails with the message
\* "no outer ring in polygon" and yields no numeric value.
C2_MissingOuterRingFails ==
    (poly = NoRings /\ pc # "start") =>
        /\ result.kind = "panic"
        /\ result.msg = "no outer ring in polygon"
        /\ result.val = <<>>

C2_Witness == poly = NoRings /\ result = Panicked

\* C3 as stated: on a polygon without rings, area comes back to its caller
\* with an explicit error value instead of panicking.
C3_ErrorValueReturned ==
    (poly = NoRings /\ pc # "start") => (pc = "returned" /\ result.kind = "error")

\* C3, amended: on a polygon without rings, area never comes back to its
\* caller: control leaves it by the panic of expect, and no value of any kind
\* (numeric or error) is returned.
C3_PanicsWithoutReturning ==
    poly = NoRings =>
        /\ pc \in {"start", "panicked"}
        /\ pc = "panicked" => (result.kind = "panic" /\ result.val = <<>>)

C3_Witness == poly = NoRings /\ pc = "panicked" /\ result.kind # "value"

\* C4: a ring of 0 or 1 points has signed area exactly zero, and area of a
\* polygon whose only ring has 0 or 1 points returns exactly zero.
C4_DegenerateRingZero ==
    /\ (pc \in {"init", "sub"} /\ Len(ring) <= 1) => ring_area = Zero
    /\ (pc = "returned" /\ Len(poly) = 1 /\ Len(poly[1]) <= 1) =>
           result = Returned(Zero)

C4_Witness ==
    /\ pc = "returned"
    /\ Len(poly) = 1
    /\ Len(poly[1]) = 1
    /\ poly[1][1].x # Zero
    /\ poly[1][1].y # Zero
    /\ result = Returned(Zero)

SetMax(S) == CHOOSE m \in S : \A n \in S : n <= m

SetMin(S) == CHOOSE m \in S : \A n \in S : m <= n

\* r is an explicitly closed counter-clockwise axis-aligned rectangle.
IsCcwRect(r) ==
    /\ Len(r) = 5
    /\ r[5] = r[1]
    /\ \E k \in 1..4 :
          LET c(i) == r[((i + k) % 4) + 1]
          IN  /\ c(0).x < c(1).x /\ c(0).y = c(1).y
              /\ c(1).x = c(2).x /\ c(1).y < c(2).y
              /\ c(2).x > c(3).x /\ c(2).y = c(3).y
              /\ c(3).x = c(0).x

\* Width times height of the rectangle r.
RectArea(r) ==
    LET xs == {r[i].x : i \in 1..Len(r)}
        ys == {r[i].y : i \in 1..Len(r)}
    IN  FMul(SetMax(xs) - SetMin(xs), SetMax(ys) - SetMin(ys))

RECURSIVE SumRectAreas(_, _)
SumRectAreas(p, i) ==
    IF i > Len(p) THEN Zero ELSE RectArea(p[i]) + SumRectAreas(p, i + 1)

\* C5: when every ring is an explicitly closed counter-clockwise axis-aligned
\* rectangle, area returns the outer rectangle's width times height minus the
\* sum of the holes' widths times heights.
C5_RectangleAreas ==
    (pc = "returned" /\ \A i \in 1..Len(poly) : IsCcwRect(poly[i])) =>
        result = Returned(RectArea(poly[1]) - SumRectAreas(poly, 2))

\* The 10 x 10 square with two 1 x 1 holes of the test: 98.
C5_Witness ==
    /\ pc = "returned"
    /\ poly = <<Square10, Inner0, Inner1>>
    /\ \A i \in 1..3 : IsCcwRect(poly[i])
    /\ result = Returned(Fx(98))

\* b is a translated by one offset.
IsTranslateOf(a, b) ==
    /\ Len(a) = Len(b)
    /\ \A i \in 1..Len(a) :
          /\ b[i].x - a[i].x = b[1].x - a[1].x
          /\ b[i].y - a[i].y = b[1].y - a[1].y

\* The first and the last point of r coincide (no points: nothing to close).
IsClosed(r) == r = <<>> \/ r[1] = r[Len(r)]

\* C6 as stated: the translate of any ring, closed or not, has the signed
\* area of the ring.  (In state "sub" of the second ring, acc still holds the
\* first ring's area and ring_area the second's.)
C6_TranslationInvariant ==
    (pc = "sub" /\ RingsTaken = 2 /\ IsTranslateOf(poly[1], ring)) => ring_area = acc

\* C6, amended: the translate of a ring whose first and last points coincide
\* has the signed area of the ring.
C6_ClosedTranslationInvariant ==
    (pc = "sub" /\ RingsTaken = 2 /\ IsTranslateOf(poly[1], ring)
        /\ IsClosed(poly[1])) => ring_area = acc

\* A closed ring of non-zero area and its translate along both axes.
C6_Witness ==
    /\ pc = "sub"
    /\ RingsTaken = 2
    /\ Len(ring) >= 4
    /\ IsClosed(poly[1])
    /\ IsTranslateOf(poly[1], ring)
    /\ ring[1].x # poly[1][1].x
    /\ ring[1].y # poly[1][1].y
    /\ acc # Zero
    /\ ring_area = acc

\* C7: the reversed point sequence of any ring, closed or not, has minus the
\* signed area of the ring.
C7_ReversalNegates ==
    (pc = "sub" /\ RingsTaken = 2 /\ ring = Reverse(poly[1])) =>
        ring_area = FSub(Zero, acc)

\* An open ring of non-zero area and its reversal.
C7_Witness ==
    /\ pc = "sub"
    /\ RingsTaken = 2
    /\ ring = Reverse(poly[1])
    /\ ~IsClosed(poly[1])
    /\ acc # Zero
    /\ ring_area = FSub(Zero, acc)

\* The integer coordinate held by the scalar v.
CoordOf(v) == v \div One

\* x_i * y_(i+1) - x_(i+1) * y_i over the integer coordinates of r.
PairTerm(r, i) ==
    CoordOf(r[i].x) * CoordOf(r[i + 1].y) - CoordOf(r[i + 1].x) * CoordOf(r[i].y)

\* The sum of PairTerm over the pairs i..Len(r)-1.
RECURSIVE PairSum(_, _)
PairSum(r, i) == IF i >= Len(r) THEN 0 ELSE PairTerm(r, i) + PairSum(r, i + 1)

\* C9: the signed area of a ring of n >= 2 points is half the sum of
\* x_i * y_(i+1) - x_(i+1) * y_i over the n-1 consecutive pairs, without a term
\* from the last point back to the first.
C9_HalfSumOfConsecutivePairs ==
    (pc \in {"init", "sub"} /\ Len(ring) >= 2) =>
        FAdd(ring_area, ring_area) = Fx(PairSum(ring, 1))

\* An open ring whose closing pair would have contributed.
C9_Witness ==
    /\ pc = "init"
    /\ Len(ring) >= 3
    /\ ~IsClosed(ring)
    /\ CoordOf(ring[Len(ring)].x) * CoordOf(ring[1].y)
           # CoordOf(ring[1].x) * CoordOf(ring[Len(ring)].y)
    /\ FAdd(ring_area, ring_area) = Fx(PairSum(ring, 1))

\* Twice the signed area of the triangle a, b, c: positive for a left turn at b.
Turn(a, b, c) == (b.x - a.x) * (c.y - b.y) - (b.y - a.y) * (c.x - b.x)

\* Vertex j (cyclically) of the explicitly closed ring r of Len(r) - 1 vertices.
Vertex(r, j) == r[((j - 1) % (Len(r) - 1)) + 1]

\* r is explicitly closed, has at least 3 vertices and turns left at each.
TurnsLeft(r) ==
    /\ Len(r) >= 4
    /\ IsClosed(r)
    /\ \A j \in 1..(Len(r) - 1) :
          Turn(Vertex(r, j + Len(r) - 2), Vertex(r, j), Vertex(r, j + 1)) > 0

TurnsRight(r) ==
    /\ Len(r) >= 4
    /\ IsClosed(r)
    /\ \A j \in 1..(Len(r) - 1) :
          Turn(Vertex(r, j + Len(r) - 2), Vertex(r, j), Vertex(r, j + 1)) < 0

=============================================================================
